---- MODULE Spec2Model ----
(***************************************************************************)
(* TrackMate server (src/index.js): the parcel / payment HTTP handlers     *)
(* over the two MongoDB collections "parcel" and "payments".               *)
(*                                                                         *)
(* Every handler is an async function: the code between two awaits runs    *)
(* atomically on the event loop, and the store executes an awaited call at *)
(* some later point, interleaved with the calls of other requests.  A      *)
(* request is therefore a small process: its first handler segment issues  *)
(* a store call (pc = the pending call); a later step is the store         *)
(* executing that call together with the handler segment that resumes on   *)
(* its result.  That segment reads its own result, the clock and the       *)
(* ObjectId generator and writes neither collection, so the collections    *)
(* go through the same states as when the two are separate steps.          *)
(***************************************************************************)
EXTENDS Integers, Sequences, FiniteSets, Bags, TLC

\* ------------------------------------------------------------------ bounds
\* Length of the hexadecimal form of an ObjectId (24 in the driver, scaled).
IdLen == 2
\* First value of the process-wide ObjectId counter (random in the driver).
FirstOid == 10
\* Requests received over a run.
MaxReqs == 2
\* Requests that may be suspended at a store call at the same time.
MaxInFlight == 2
\* Largest value of the server clock.
MaxClock == 2

\* --------------------------------------------------------------- ObjectId
Lowers == <<"0","1","2","3","4","5","6","7","8","9","a","b","c","d","e","f">>
Uppers == <<"0","1","2","3","4","5","6","7","8","9","A","B","C","D","E","F">>

IsHexChar(c) == \E k \in 1..16 : Lowers[k] = c \/ Uppers[k] = c

HexVal(c) == (CHOOSE k \in 1..16 : Lowers[k] = c \/ Uppers[k] = c) - 1

RECURSIVE Pow16(_)
Pow16(n) == IF n = 0 THEN 1 ELSE 16 * Pow16(n - 1)

\* The identifier format: IdLen hexadecimal characters of either case.
\* <<>> stands for an empty or absent identifier.
WellFormed(id) == Len(id) = IdLen /\ \A k \in 1..Len(id) : IsHexChar(id[k])

\* Mutation: the format check is left out.
IsValidAlways(id) == TRUE

\* ObjectId.isValid(id), the check the handlers make on a string id.
IsValid(id) == WellFormed(id)

\* new ObjectId(id) throws a BSONError on a string that is not well formed.
ObjectIdThrows(id) == ~WellFormed(id)

RECURSIVE HexToNat(_)
HexToNat(id) ==
    IF id = <<>> THEN 0
    ELSE 16 * HexToNat(SubSeq(id, 1, Len(id) - 1)) + HexVal(id[Len(id)])

\* new ObjectId(id) for a string that passed isValid: the bytes the
\* hexadecimal digits spell, whatever their case.
NewObjectId(id) == [oid |-> HexToNat(id)]

\* ObjectId.prototype.toString(): lower-case hexadecimal, IdLen characters.
ToHex(n) == [k \in 1..IdLen |-> Lowers[((n \div Pow16(IdLen - k)) % 16) + 1]]

ToUpperHex(n) == [k \in 1..IdLen |-> Uppers[((n \div Pow16(IdLen - k)) % 16) + 1]]

\* ----------------------------------------------------------------- inputs
\* Identifiers a client sends: the first store-assigned parcel identifier in
\* upper-case hexadecimal, the second in lower case, and a string with a
\* non-hexadecimal character.
IdInputs ==
    { ToUpperHex(FirstOid + 1), ToHex(FirstOid + 3), [k \in 1..IdLen |-> "g"] }

Emails == {"a@b.com", "c@d.com"}

\* req.query of GET /parcels: without an email parameter, with an empty one
\* (GET /parcels?email=) and with an address.
Queries == { [page |-> "1"], [email |-> ""] } \cup { [email |-> e] : e \in Emails }

\* Request bodies of POST /parcels, arbitrary JSON objects: shipment fields
\* with a paymentIntentId of the caller's, a body that brings its own status,
\* trackingId and createdAt, and one that brings an _id (a string, as JSON
\* has no ObjectId) spelling the first store-assigned identifier.
Bodies ==
    { [createdBy |-> "a@b.com", destination |-> "X", paymentIntentId |-> "pi_0"],
      [createdBy |-> "c@d.com", status |-> "Paid", trackingId |-> <<"T">>,
       createdAt |-> 0],
      [createdBy |-> "a@b.com", _id |-> [str |-> ToHex(FirstOid + 1)]] }

PaymentIntents == {"pi_1", "pi_2"}

VARIABLES
    parcelCollection,   \* db.collection("parcel"): a set of documents
    paymentCollection,  \* db.collection("payments"): a set of documents
    reqs,               \* the suspended requests, by slot
    resp,               \* the response the last step sent, if it sent one
    now,                \* the server clock, as new Date() last read it
    oidCounter,         \* the ObjectId generator of the process
    nReqs,              \* requests received so far
    deleted,            \* history: identifiers whose DELETE was answered 200
    confirmed           \* history: parcelIds of the confirms answered 200

vars == <<parcelCollection, paymentCollection, reqs, resp, now, oidCounter,
          nReqs, deleted, confirmed>>

Idle == [kind |-> "idle"]
NoResp == [code |-> 0]

Slots == 1..MaxInFlight

\* new Date(): the clock never runs backwards, so a reading is the last
\* reading or a later time.
Clock == now..MaxClock

\* ------------------------------------------------------ request plumbing
\* The lowest free slot takes the next request that has to wait on the store.
FreeSlot == CHOOSE i \in Slots : reqs[i] = Idle /\ \A j \in Slots : j < i => reqs[j] # Idle

CanReceive == nReqs < MaxReqs

CanSuspend == CanReceive /\ \E i \in Slots : reqs[i] = Idle

\* The handler awaits a store call: the request waits in a slot.
Suspend(r) ==
    /\ reqs' = [reqs EXCEPT ![FreeSlot] = r]
    /\ resp' = NoResp

\* res.status(code).json(...): the request of slot i is answered and leaves.
Reply(i, code, docs) ==
    /\ resp' = [req |-> reqs[i], code |-> code, docs |-> docs]
    /\ reqs' = [reqs EXCEPT ![i] = Idle]

\* A request answered by its first handler segment, before any await.
ReplyAtOnce(r, code) == resp' = [req |-> r, code |-> code, docs |-> <<>>]

Waiting(i, call) == reqs[i].kind # "idle" /\ reqs[i].pc = call

\* ------------------------------------------------------------ GET /parcels
\* const email = req.query.email; if (email) query = { createdBy: email }:
\* the filter is empty when the parameter is absent or the empty string.
Filter(query) ==
    IF "email" \in DOMAIN query /\ query.email # "" THEN [createdBy |-> query.email]
    ELSE [any |-> TRUE]

\* find(filter): the documents that have every field of the filter.
Matches(d, filter) ==
    "createdBy" \in DOMAIN filter =>
        ("createdBy" \in DOMAIN d /\ d.createdBy = filter.createdBy)

Orderings(S) ==
    { s \in [1..Cardinality(S) -> S] : \A a, b \in DOMAIN s : a # b => s[a] # s[b] }

\* Mutation: .sort({ createdAt: 1 }), oldest first.
SortByCreatedAtAsc(S) ==
    { s \in Orderings(S) : \A a, b \in DOMAIN s : a < b => s[a].createdAt <= s[b].createdAt }

\* .sort({ createdAt: -1 }): any order of S with createdAt never increasing.
SortByCreatedAtDesc(S) ==
    { s \in Orderings(S) : \A a, b \in DOMAIN s : a < b => s[a].createdAt >= s[b].createdAt }

GetParcelsStart ==
    /\ CanSuspend
    /\ \E query \in Queries :
        Suspend([kind |-> "list", query |-> query, filter |-> Filter(query),
                 pc |-> "find", calls |-> 1])
    /\ nReqs' = nReqs + 1
    /\ UNCHANGED <<parcelCollection, paymentCollection, now, oidCounter, deleted, confirmed>>

\* find(query).sort(...).toArray() returns and res.json(parcels) answers.
GetParcelsFind(i) ==
    /\ Waiting(i, "find")
    /\ \E s \in SortByCreatedAtDesc({ d \in parcelCollection : Matches(d, reqs[i].filter) }) :
        Reply(i, 200, s)
    /\ UNCHANGED <<parcelCollection, paymentCollection, now, oidCounter, nReqs, deleted, confirmed>>

\* -------------------------------------------------------- GET /parcels/:id
GetParcelStart ==
    /\ CanReceive
    /\ \E id \in IdInputs :
        LET r == [kind |-> "get", id |-> id, pc |-> "findOne", calls |-> 0,
                  afterDelete |-> FALSE] IN
        IF ~IsValid(id) THEN ReplyAtOnce(r, 400) /\ UNCHANGED reqs
        ELSE IF ObjectIdThrows(id) THEN ReplyAtOnce(r, 500) /\ UNCHANGED reqs
        ELSE /\ CanSuspend
             /\ Suspend([r EXCEPT !.calls = 1,
                                  !.afterDelete = NewObjectId(id) \in deleted])
    /\ nReqs' = nReqs + 1
    /\ UNCHANGED <<parcelCollection, paymentCollection, now, oidCounter, deleted, confirmed>>

\* findOne({ _id }) returns the document with that _id, or null: 200 or 404.
GetParcelFindOne(i) ==
    /\ Waiting(i, "findOne")
    /\ LET found == { d \in parcelCollection : d._id = NewObjectId(reqs[i].id) } IN
       IF found = {} THEN Reply(i, 404, <<>>)
       ELSE \E s \in Orderings(found) : Reply(i, 200, s)
    /\ UNCHANGED <<parcelCollection, paymentCollection, now, oidCounter, nReqs, deleted, confirmed>>

\* ----------------------------------------------------------- POST /parcels
\* Mutation: the server's values are defaults that the body overrides.
ParcelDataDefaults(body, tid, t) ==
    [f \in DOMAIN body \cup {"status", "trackingId", "createdAt"} |->
        IF f \in DOMAIN body THEN body[f]
        ELSE IF f = "status" THEN "Pending"
        ELSE IF f = "trackingId" THEN tid
        ELSE t]

\* parcelData after the three assignments: the body with status, trackingId
\* and createdAt set by the server.
ParcelData(body, tid, t) ==
    [f \in DOMAIN body \cup {"status", "trackingId", "createdAt"} |->
        IF f = "status" THEN "Pending"
        ELSE IF f = "trackingId" THEN tid
        ELSE IF f = "createdAt" THEN t
        ELSE body[f]]

\* Mutation: a caller-supplied _id string is turned into the ObjectId it spells.
WithIdParsed(doc, oid) ==
    IF "_id" \in DOMAIN doc
    THEN [f \in DOMAIN doc |-> IF f = "_id" THEN NewObjectId(doc._id.str) ELSE doc[f]]
    ELSE [f \in DOMAIN doc \cup {"_id"} |-> IF f = "_id" THEN oid ELSE doc[f]]

\* insertOne(doc) gives a document without _id a new ObjectId before sending.
WithId(doc, oid) ==
    IF "_id" \in DOMAIN doc THEN doc
    ELSE [f \in DOMAIN doc \cup {"_id"} |-> IF f = "_id" THEN oid ELSE doc[f]]

\* The ObjectIds a POST /parcels generates: the trackingId, and the _id when
\* the body brings none.
OidsUsed(body) == IF "_id" \in DOMAIN body THEN 1 ELSE 2

\* The document a POST /parcels with this body inserts when the generator
\* stands at c and the clock at t.
NewParcel(body, c, t) == WithId(ParcelData(body, ToHex(c), t), [oid |-> c + 1])

\* The bodies of the parcels the store may hold when the server starts:
\* those that bring no _id and no status of their own.
SeedBodies == { body \in Bodies : "_id" \notin DOMAIN body /\ "status" \notin DOMAIN body }

\* The store is persistent: the server starts with an empty parcel
\* collection, or with one parcel that an earlier POST /parcels created.
Init ==
    /\ \/ parcelCollection = {} /\ oidCounter = FirstOid
       \/ \E body \in SeedBodies :
            /\ parcelCollection = {NewParcel(body, FirstOid, 1)}
            /\ oidCounter = FirstOid + OidsUsed(body)
    /\ paymentCollection = {}
    /\ reqs = [i \in Slots |-> Idle]
    /\ resp = NoResp
    /\ now = 1
    /\ nReqs = 0
    /\ deleted = {}
    /\ confirmed = EmptyBag

PostParcelStart ==
    /\ CanSuspend
    /\ \E body \in Bodies, t \in Clock :
        /\ Suspend([kind |-> "create", body |-> body,
                    doc |-> NewParcel(body, oidCounter, t),
                    pc |-> "insertParcel", calls |-> 1])
        /\ oidCounter' = oidCounter + OidsUsed(body)
        /\ now' = t
    /\ nReqs' = nReqs + 1
    /\ UNCHANGED <<parcelCollection, paymentCollection, deleted, confirmed>>

\* insertOne on the parcel collection returns and the handler answers 201; a
\* duplicate _id is a write error, which the catch block answers with 500.
PostParcelInsert(i) ==
    /\ Waiting(i, "insertParcel")
    /\ IF \E d \in parcelCollection : d._id = reqs[i].doc._id
       THEN Reply(i, 500, <<>>) /\ UNCHANGED parcelCollection
       ELSE /\ parcelCollection' = parcelCollection \cup {reqs[i].doc}
            /\ Reply(i, 201, <<reqs[i].doc>>)
    /\ UNCHANGED <<paymentCollection, now, oidCounter, nReqs, deleted, confirmed>>

\* ----------------------------------------------------- DELETE /parcels/:id
DeleteParcelStart ==
    /\ CanReceive
    /\ \E id \in IdInputs :
        LET r == [kind |-> "delete", id |-> id, pc |-> "deleteOne", calls |-> 0] IN
        IF ~IsValid(id) THEN ReplyAtOnce(r, 400) /\ UNCHANGED reqs
        ELSE IF ObjectIdThrows(id) THEN ReplyAtOnce(r, 500) /\ UNCHANGED reqs
        ELSE CanSuspend /\ Suspend([r EXCEPT !.calls = 1])
    /\ nReqs' = nReqs + 1
    /\ UNCHANGED <<parcelCollection, paymentCollection, now, oidCounter, deleted, confirmed>>

\* Mutation: deleting a parcel also deletes the payments that reference it.
DeleteParcelCascade(i) ==
    /\ Waiting(i, "deleteOne")
    /\ LET found == { d \in parcelCollection : d._id = NewObjectId(reqs[i].id) } IN
        /\ parcelCollection' = parcelCollection \ found
        /\ paymentCollection' =
            { pay \in paymentCollection : \A d \in found : pay.parcelId # d._id }
        /\ IF Cardinality(found) = 0 THEN Reply(i, 404, <<>>) /\ UNCHANGED deleted
           ELSE /\ Reply(i, 200, <<>>)
                /\ deleted' = deleted \cup {NewObjectId(reqs[i].id)}
    /\ UNCHANGED <<now, oidCounter, nReqs, confirmed>>

\* deleteOne({ _id }) on the parcel collection returns: 404 when
\* deletedCount is 0, the success message otherwise.
DeleteParcelDeleteOne(i) ==
    /\ Waiting(i, "deleteOne")
    /\ LET found == { d \in parcelCollection : d._id = NewObjectId(reqs[i].id) } IN
        /\ parcelCollection' = parcelCollection \ found
        /\ IF Cardinality(found) = 0 THEN Reply(i, 404, <<>>) /\ UNCHANGED deleted
           ELSE /\ Reply(i, 200, <<>>)
                /\ deleted' = deleted \cup {NewObjectId(reqs[i].id)}
    /\ UNCHANGED <<paymentCollection, now, oidCounter, nReqs, confirmed>>

\* --------------------------------------------------- POST /confirm-payment
\* The amount and createdBy of the confirm bodies.
ConfirmAmount == 500
ConfirmCreatedBy == "a@b.com"

\* Mutation: the update document without $set replaces the whole parcel.
SetPaidReplacing(d, paymentIntentId) ==
    [_id |-> d._id, status |-> "Paid", paymentIntentId |-> paymentIntentId]

\* { $set: { status: "Paid", paymentIntentId } } applied to a document.
SetPaid(d, paymentIntentId) ==
    [f \in DOMAIN d \cup {"status", "paymentIntentId"} |->
        IF f = "status" THEN "Paid"
        ELSE IF f = "paymentIntentId" THEN paymentIntentId
        ELSE d[f]]

\* paymentData, with the _id insertOne gives it; createdAt and paid_at are
\* two readings of the clock.
PaymentData(parcelId, paymentIntentId, t, u, oid) ==
    [_id |-> oid, parcelId |-> NewObjectId(parcelId), createdBy |-> ConfirmCreatedBy,
     amount |-> ConfirmAmount, paymentIntentId |-> paymentIntentId,
     status |-> "Succeeded", createdAt |-> t, paid_at |-> u]

ConfirmStart ==
    /\ CanReceive
    /\ \E id \in IdInputs, paymentIntentId \in PaymentIntents :
        LET r == [kind |-> "confirm", id |-> id, paymentIntentId |-> paymentIntentId,
                  pc |-> "updateOne", calls |-> 0] IN
        IF ~IsValid(id) THEN ReplyAtOnce(r, 400) /\ UNCHANGED reqs
        ELSE IF ObjectIdThrows(id) THEN ReplyAtOnce(r, 500) /\ UNCHANGED reqs
        ELSE CanSuspend /\ Suspend([r EXCEPT !.calls = 1])
    /\ nReqs' = nReqs + 1
    /\ UNCHANGED <<parcelCollection, paymentCollection, now, oidCounter, deleted, confirmed>>

\* Mutation: matchedCount is not looked at, the payment insert always follows.
ConfirmUpdateOneUnchecked(i) ==
    /\ Waiting(i, "updateOne")
    /\ LET found == { d \in parcelCollection : d._id = NewObjectId(reqs[i].id) } IN
        /\ parcelCollection' = (parcelCollection \ found)
                \cup { SetPaid(d, reqs[i].paymentIntentId) : d \in found }
        /\ \E t \in Clock : \E u \in t..MaxClock :
            /\ reqs' = [reqs EXCEPT ![i] =
                    [kind |-> "confirm", id |-> reqs[i].id,
                     paymentIntentId |-> reqs[i].paymentIntentId,
                     pc |-> "insertPayment", calls |-> 2,
                     doc |-> PaymentData(reqs[i].id, reqs[i].paymentIntentId, t, u,
                                         [oid |-> oidCounter])]]
            /\ now' = u
        /\ resp' = NoResp
        /\ oidCounter' = oidCounter + 1
    /\ UNCHANGED <<paymentCollection, nReqs, deleted, confirmed>>

\* updateOne({ _id }, { $set }) on the parcel collection returns: 404 when
\* matchedCount is 0; otherwise paymentData is built and its insert issued.
ConfirmUpdateOne(i) ==
    /\ Waiting(i, "updateOne")
    /\ LET found == { d \in parcelCollection : d._id = NewObjectId(reqs[i].id) } IN
        /\ parcelCollection' = (parcelCollection \ found)
                \cup { SetPaid(d, reqs[i].paymentIntentId) : d \in found }
        /\ IF Cardinality(found) = 0
           THEN Reply(i, 404, <<>>) /\ UNCHANGED <<oidCounter, now>>
           ELSE /\ \E t \in Clock : \E u \in t..MaxClock :
                    /\ reqs' = [reqs EXCEPT ![i] =
                            [kind |-> "confirm", id |-> reqs[i].id,
                             paymentIntentId |-> reqs[i].paymentIntentId,
                             pc |-> "insertPayment", calls |-> 2,
                             doc |-> PaymentData(reqs[i].id, reqs[i].paymentIntentId, t, u,
                                                 [oid |-> oidCounter])]]
                    /\ now' = u
                /\ resp' = NoResp
                /\ oidCounter' = oidCounter + 1
    /\ UNCHANGED <<paymentCollection, nReqs, deleted, confirmed>>

\* Mutation: an idempotency guard, no second payment for a paid parcel.
ConfirmInsertOneOnce(i) ==
    /\ Waiting(i, "insertPayment")
    /\ paymentCollection' =
        IF \E d \in paymentCollection : d.parcelId = reqs[i].doc.parcelId
        THEN paymentCollection
        ELSE paymentCollection \cup {reqs[i].doc}
    /\ Reply(i, 200, <<reqs[i].doc>>)
    /\ confirmed' = confirmed (+) SetToBag({reqs[i].doc.parcelId})
    /\ UNCHANGED <<parcelCollection, now, oidCounter, nReqs, deleted>>

\* Mutation: the payment is inserted only while its parcel is in the store;
\* otherwise the request is answered 404.
ConfirmInsertOneChecked(i) ==
    /\ Waiting(i, "insertPayment")
    /\ IF \E d \in parcelCollection : d._id = reqs[i].doc.parcelId
       THEN /\ paymentCollection' = paymentCollection \cup {reqs[i].doc}
            /\ Reply(i, 200, <<reqs[i].doc>>)
            /\ confirmed' = confirmed (+) SetToBag({reqs[i].doc.parcelId})
       ELSE /\ Reply(i, 404, <<>>)
            /\ UNCHANGED <<paymentCollection, confirmed>>
    /\ UNCHANGED <<parcelCollection, now, oidCounter, nReqs, deleted>>

\* insertOne on the payments collection returns and the handler answers 200
\* with the payment.
ConfirmInsertOne(i) ==
    /\ Waiting(i, "insertPayment")
    /\ paymentCollection' = paymentCollection \cup {reqs[i].doc}
    /\ Reply(i, 200, <<reqs[i].doc>>)
    /\ confirmed' = confirmed (+) SetToBag({reqs[i].doc.parcelId})
    /\ UNCHANGED <<parcelCollection, now, oidCounter, nReqs, deleted>>

\* ---------------------------------------------------------- POST /tracking
\* Bodies of POST /tracking; <<>> stands for a missing field.
TrackingBodies ==
    { [parcelId |-> ToHex(FirstOid + 1), trackingId |-> ToHex(FirstOid), status |-> "In Transit"],
      [parcelId |-> [k \in 1..IdLen |-> "g"], trackingId |-> ToHex(FirstOid), status |-> "In Transit"],
      [parcelId |-> ToHex(FirstOid + 1), trackingId |-> ToHex(FirstOid), status |-> ""] }

\* The handler never reaches its await: with the three fields present,
\* new ObjectId(parcelId) throws on a malformed parcelId, and otherwise the
\* reference to trackingCollection, which nothing declares, throws a
\* ReferenceError; the catch answers 500 either way.
PostTracking ==
    /\ CanReceive
    /\ \E body \in TrackingBodies :
        LET r == [kind |-> "tracking", body |-> body, calls |-> 0] IN
        IF body.parcelId = <<>> \/ body.trackingId = <<>> \/ body.status = ""
        THEN ReplyAtOnce(r, 400)
        ELSE IF ObjectIdThrows(body.parcelId) THEN ReplyAtOnce(r, 500)
        ELSE ReplyAtOnce(r, 500)
    /\ nReqs' = nReqs + 1
    /\ UNCHANGED <<parcelCollection, paymentCollection, reqs, now, oidCounter, deleted, confirmed>>

\* ------------------------------------------------------------ environment
\* Mutation: a failed payment insert is compensated, the parcel is marked
\* "Pending" again.
StoreFailCompensated(i) ==
    /\ reqs[i].kind # "idle"
    /\ Reply(i, 500, <<>>)
    /\ parcelCollection' =
        IF reqs[i].pc = "insertPayment"
        THEN { IF d._id = reqs[i].doc.parcelId THEN [d EXCEPT !.status = "Pending"] ELSE d :
               d \in parcelCollection }
        ELSE parcelCollection
    /\ UNCHANGED <<paymentCollection, now, oidCounter, nReqs, deleted, confirmed>>

\* A pending store call fails (the driver rejects the promise): nothing is
\* written and the catch block of the handler answers 500.
StoreFail(i) ==
    /\ reqs[i].kind # "idle"
    /\ Reply(i, 500, <<>>)
    /\ UNCHANGED <<parcelCollection, paymentCollection, now, oidCounter, nReqs, deleted, confirmed>>

Next ==
    \/ GetParcelsStart
    \/ GetParcelStart
    \/ PostParcelStart
    \/ DeleteParcelStart
    \/ ConfirmStart
    \/ PostTracking
    \/ \E i \in Slots :
        \/ GetParcelsFind(i)
        \/ GetParcelFindOne(i)
        \/ PostParcelInsert(i)
        \/ DeleteParcelDeleteOne(i)
        \/ ConfirmUpdateOne(i)
        \/ ConfirmInsertOne(i)
        \/ StoreFail(i)

Spec == Init /\ [][Next]_vars

\* ================================================================ claims
\* The parcels and the payments a well-formed identifier refers to.
ParcelsOf(id) == { d \in parcelCollection : d._id = NewObjectId(id) }

PaymentsOf(oid) == { d \in paymentCollection : d.parcelId = oid }

WellFormedInputs == { id \in IdInputs : WellFormed(id) }

IdRoutes == {"get", "delete", "confirm"}

\* The step of slot i in which its updateOne matches a parcel.
UpdateMatches(i) == ConfirmUpdateOne(i) /\ ParcelsOf(reqs[i].id) # {}

\* The step of slot i in which its updateOne matches no parcel.
UpdateMisses(i) == ConfirmUpdateOne(i) /\ ParcelsOf(reqs[i].id) = {}

\* C1: a confirm-payment on an existing parcel whose two writes succeed sets
\* the parcel's status to "Paid" and its paymentIntentId to the request's and
\* adds exactly one Payment document with that parcelId; nothing guards
\* against repetition, so the payments that reference a parcel are always as
\* many as the confirm calls answered 200 for it.
C1_ConfirmPaysEveryTime ==
    /\ [][\A i \in Slots :
            /\ UpdateMatches(i) =>
                \A d \in ParcelsOf(reqs[i].id)' :
                    d.status = "Paid" /\ d.paymentIntentId = reqs[i].paymentIntentId
            /\ ConfirmInsertOne(i) =>
                /\ resp'.code = 200
                /\ \E pay \in paymentCollection' \ paymentCollection :
                    /\ paymentCollection' = paymentCollection \cup {pay}
                    /\ pay.parcelId = NewObjectId(reqs[i].id)
                    /\ resp'.docs = <<pay>>]_vars
    /\ [](\A id \in WellFormedInputs :
            Cardinality(PaymentsOf(NewObjectId(id))) = CopiesIn(NewObjectId(id), confirmed))

\* C1 witness: two confirms of the same parcel were answered 200 and two
\* payments reference it.
C1_Witness ==
    \E id \in WellFormedInputs :
        /\ CopiesIn(NewObjectId(id), confirmed) = 2
        /\ Cardinality(PaymentsOf(NewObjectId(id))) = 2
        /\ \E d \in ParcelsOf(id) : d.status = "Paid"

\* C2: a confirm-payment whose well-formed parcelId matches no parcel when
\* the update runs is answered 404, leaves both collections as they were and
\* never issues the payment insert.
C2_ConfirmUnknownParcel ==
    [][\A i \in Slots :
        UpdateMisses(i) =>
            /\ resp'.code = 404
            /\ resp'.req.calls = 1
            /\ reqs'[i] = Idle
            /\ parcelCollection' = parcelCollection
            /\ paymentCollection' = paymentCollection]_vars

\* C2 witness: a confirm was answered 404 while a parcel with another
\* identifier is in the store.
C2_Witness ==
    /\ resp.code = 404
    /\ resp.req.kind = "confirm"
    /\ parcelCollection # {}
    /\ paymentCollection = {}

\* The step in which the first handler segment of a request answers it.
AnsweredAtOnce == resp'.code # 0 /\ reqs' = reqs

\* The step of slot i in which the store call of a request finds no parcel
\* with the request's identifier.
FindsNothing(i) ==
    /\ GetParcelFindOne(i) \/ DeleteParcelDeleteOne(i) \/ ConfirmUpdateOne(i)
    /\ ParcelsOf(reqs[i].id) = {}

\* C3: in GET /parcels/:id, DELETE /parcels/:id and POST /confirm-payment the
\* format check comes before every store call: a malformed identifier is
\* answered 400, never 500, by a step that issued no store call and left both
\* collections alone, no request waits on the store with a malformed
\* identifier, and a well-formed identifier that matches no parcel is
\* answered 404.
C3_ValidationFirst ==
    /\ [](resp.code # 0 /\ resp.req.kind \in IdRoutes =>
            /\ ~WellFormed(resp.req.id) => resp.code = 400 /\ resp.req.calls = 0
            /\ resp.code = 400 => ~WellFormed(resp.req.id))
    /\ [](\A i \in Slots : reqs[i].kind \in IdRoutes => WellFormed(reqs[i].id))
    /\ [][/\ (AnsweredAtOnce /\ resp'.req.kind \in IdRoutes) =>
                /\ parcelCollection' = parcelCollection
                /\ paymentCollection' = paymentCollection
          /\ \A i \in Slots : FindsNothing(i) => resp'.code = 404]_vars

\* C3 witness: a DELETE with a malformed identifier has been answered 400
\* while the store holds a parcel.
C3_Witness ==
    /\ resp.code = 400
    /\ resp.req.kind = "delete"
    /\ ~WellFormed(resp.req.id)
    /\ parcelCollection # {}

\* C4: once DELETE /parcels/:id has answered with the success message, no
\* parcel with that identifier is in the store again, whatever requests run,
\* and every GET /parcels/:id for it that starts afterwards and whose read
\* returns is answered 404.
C4_DeletedStaysDeleted ==
    /\ [](\A oid \in deleted : \A d \in parcelCollection : d._id # oid)
    /\ [][\A i \in Slots :
            (GetParcelFindOne(i) /\ reqs[i].afterDelete) => resp'.code = 404]_vars

\* C4 witness: a GET that started after the DELETE of its identifier had
\* succeeded was answered 404.
C4_Witness ==
    /\ resp.code = 404
    /\ resp.req.kind = "get"
    /\ resp.req.afterDelete
    /\ NewObjectId(resp.req.id) \in deleted

ServerFields == {"status", "trackingId", "createdAt"}

\* The step in which slot i takes a new POST /parcels request.
CreateStarts(i) == reqs[i] = Idle /\ reqs'[i].kind = "create"

\* C5: the parcel POST /parcels builds has status "Pending", the trackingId
\* the server's ObjectId generator gives and the server's clock as createdAt,
\* whatever the body says of these three, and every other field of the body
\* as given; when the store accepts the insert, that parcel is stored and
\* returned with 201.
C5_CreateOverrides ==
    /\ [][\A i \in Slots :
            /\ CreateStarts(i) =>
                LET body == reqs'[i].body
                    doc == reqs'[i].doc IN
                /\ doc.status = "Pending"
                /\ doc.trackingId = ToHex(oidCounter)
                /\ doc.createdAt = now' /\ now' >= now
                /\ \A f \in DOMAIN body \ ServerFields : doc[f] = body[f]
                /\ DOMAIN doc = DOMAIN body \cup ServerFields \cup {"_id"}
            /\ (PostParcelInsert(i) /\ \A d \in parcelCollection : d._id # reqs[i].doc._id) =>
                /\ resp'.code = 201
                /\ resp'.docs = <<reqs[i].doc>>
                /\ parcelCollection' = parcelCollection \cup {reqs[i].doc}]_vars
    /\ [](resp.code = 201 =>
            /\ resp.req.kind = "create"
            /\ resp.docs[1].status = "Pending"
            /\ WellFormed(resp.docs[1].trackingId)
            /\ resp.docs[1].createdAt \in 1..now)

\* C5 witness: a body that brought its own status, trackingId and createdAt
\* was answered 201 with a Pending parcel.
C5_Witness ==
    /\ resp.code = 201
    /\ ServerFields \subseteq DOMAIN resp.req.body
    /\ resp.req.body.status = "Paid"
    /\ resp.docs[1].status = "Pending"
    /\ resp.docs[1] \in parcelCollection

Range(s) == { s[k] : k \in DOMAIN s }

CreatedBy(e) == { d \in parcelCollection : "createdBy" \in DOMAIN d /\ d.createdBy = e }

NewestFirst(s) == \A a, b \in DOMAIN s : a < b => s[a].createdAt >= s[b].createdAt

\* The answer of the step is the list of exactly the parcels of S, each once,
\* newest first.
Lists(S) ==
    /\ resp'.code = 200
    /\ Range(resp'.docs) = S
    /\ Len(resp'.docs) = Cardinality(S)
    /\ NewestFirst(resp'.docs)

\* C6, as stated: GET /parcels with an email parameter returns exactly the
\* stored parcels whose createdBy equals it, without the parameter all
\* parcels, newest createdAt first.  GET /parcels?email= refutes it: the
\* empty email is falsy and every parcel is returned.
C6_AsStated ==
    [][\A i \in Slots :
        GetParcelsFind(i) =>
            IF "email" \in DOMAIN reqs[i].query
            THEN Lists(CreatedBy(reqs[i].query.email))
            ELSE Lists(parcelCollection)]_vars

\* C6, amended: GET /parcels with a non-empty email parameter returns exactly
\* the parcels in the store whose createdBy equals it, and without the
\* parameter or with an empty one all parcels; in both cases newest
\* createdAt first.
C6_ListFiltersAndSorts ==
    [][\A i \in Slots :
        GetParcelsFind(i) =>
            IF "email" \in DOMAIN reqs[i].query /\ reqs[i].query.email # ""
            THEN Lists(CreatedBy(reqs[i].query.email))
            ELSE Lists(parcelCollection)]_vars

\* C6 witness: a list filtered by email returned two parcels of different
\* createdAt while the store holds a parcel of another sender.
C6_Witness ==
    /\ resp.code = 200
    /\ resp.req.kind = "list"
    /\ "email" \in DOMAIN resp.req.query
    /\ Len(resp.docs) = 2
    /\ resp.docs[1].createdAt > resp.docs[2].createdAt
    /\ resp.docs[1].createdBy = resp.req.query.email

\* C7: a Payment document, once inserted, is never modified or removed,
\* whatever requests run: every step keeps every payment as it is.
C7_PaymentsAppendOnly == [][paymentCollection \subseteq paymentCollection']_vars

\* C7 witness: the parcel a payment references has been deleted and the
\* payment is still there.
C7_Witness ==
    \E pay \in paymentCollection :
        /\ pay.parcelId \in deleted
        /\ \A d \in parcelCollection : d._id # pay.parcelId

\* The parcel of the next state that has the _id of d, if any.
Successor(d) == { e \in parcelCollection' : e._id = d._id }

DeleteStep == \E i \in Slots : DeleteParcelDeleteOne(i)

ConfirmStep == \E i \in Slots : ConfirmUpdateOne(i)

\* C8, as stated: a stored parcel changes only by the confirm-payment update
\* and by deletion, and no field it was created with changes, except status
\* from "Pending" to "Paid".  A parcel created with a paymentIntentId of its
\* own in the body refutes it: the update overwrites that field.
C8_AsStated ==
    [][\A d \in parcelCollection :
        /\ Successor(d) = {} => DeleteStep
        /\ \A e \in Successor(d) :
            /\ e # d => ConfirmStep
            /\ DOMAIN d \subseteq DOMAIN e
            /\ d.status = "Pending" => \A f \in DOMAIN d \ {"status"} : e[f] = d[f]
            /\ d.status = "Paid" => \A f \in DOMAIN d \ {"paymentIntentId"} : e[f] = d[f]
            /\ e.status \in {d.status, "Paid"}]_vars

\* C8, amended: a stored parcel changes only by the confirm-payment update
\* and by deletion; its trackingId, createdAt and every other field it was
\* created with, except status and paymentIntentId, never change, and its
\* status only goes from "Pending" to "Paid", never back.
C8_OnlyConfirmMutates ==
    [][\A d \in parcelCollection :
        /\ Successor(d) = {} => DeleteStep
        /\ \A e \in Successor(d) :
            /\ e # d => ConfirmStep
            /\ DOMAIN d \subseteq DOMAIN e
            /\ \A f \in DOMAIN d \ {"status", "paymentIntentId"} : e[f] = d[f]
            /\ d.status = "Paid" => e.status = "Paid"
            /\ e.status \in {d.status, "Paid"}]_vars

\* C8 witness: a parcel created with caller-supplied fields has been paid.
C8_Witness ==
    \E d \in parcelCollection :
        /\ d.status = "Paid"
        /\ d.paymentIntentId \in PaymentIntents
        /\ d.createdBy = "c@d.com"
        /\ WellFormed(d.trackingId)

\* C9, as stated: POST /tracking with parcelId, trackingId and status in the
\* body is answered 201, and without one of them 400.  The handler uses
\* trackingCollection, which is never declared, so a complete body is
\* answered 500.
C9_AsStated ==
    (resp.code # 0 /\ resp.req.kind = "tracking") =>
        IF resp.req.body.parcelId # <<>> /\ resp.req.body.trackingId # <<>>
            /\ resp.req.body.status # ""
        THEN resp.code = 201
        ELSE resp.code = 400

\* The step of slot i in which its payment insert fails.
InsertFails(i) == StoreFail(i) /\ Waiting(i, "insertPayment")

\* C10: when the parcel update of a confirm-payment has succeeded and its
\* payment insert fails, the request is answered 500 and nothing is undone:
\* the update had marked the parcel "Paid" with the request's
\* paymentIntentId, the failing step changes neither collection, and the
\* parcel, while it is in the store, stays "Paid" with no payment of that
\* request.
C10_NoCompensation ==
    /\ [][\A i \in Slots :
            /\ UpdateMatches(i) =>
                /\ reqs'[i].pc = "insertPayment"
                /\ \A d \in ParcelsOf(reqs[i].id)' :
                    d.status = "Paid" /\ d.paymentIntentId = reqs[i].paymentIntentId
            /\ InsertFails(i) =>
                /\ resp'.code = 500
                /\ reqs'[i] = Idle
                /\ parcelCollection' = parcelCollection
                /\ paymentCollection' = paymentCollection]_vars
    /\ [](\A i \in Slots :
            Waiting(i, "insertPayment") =>
                \A d \in ParcelsOf(reqs[i].id) : d.status = "Paid")
    /\ [](resp.code = 500 /\ resp.req.kind = "confirm" /\ resp.req.calls = 2 =>
            /\ \A d \in ParcelsOf(resp.req.id) : d.status = "Paid"
            /\ \A pay \in paymentCollection : pay._id # resp.req.doc._id)

\* C10 witness: a confirm was answered 500 after its update, the parcel is
\* "Paid" with its paymentIntentId and no payment references it.
C10_Witness ==
    /\ resp.code = 500
    /\ resp.req.kind = "confirm"
    /\ resp.req.calls = 2
    /\ \E d \in ParcelsOf(resp.req.id) :
        d.status = "Paid" /\ d.paymentIntentId = resp.req.paymentIntentId
    /\ PaymentsOf(NewObjectId(resp.req.id)) = {}

\* The step of slot i in which its deleteOne finds the parcel.
DeleteMatches(i) == DeleteParcelDeleteOne(i) /\ ParcelsOf(reqs[i].id) # {}

\* C11: a DELETE /parcels/:id and a POST /confirm-payment of the same parcel
\* can both succeed.  Nothing orders them: a delete that finds the parcel
\* removes it and is answered with the success message whatever confirm
\* waits for its payment insert, that confirm keeps waiting, and the payment
\* insert is answered 200 with the new Payment whether or not the parcel is
\* still in the store.  (The interleaving update, delete, insert is the
\* witness.)
C11_DeleteAndConfirmBothSucceed ==
    [][\A i \in Slots :
        /\ DeleteMatches(i) =>
            /\ resp'.code = 200
            /\ \A d \in parcelCollection' : d._id # NewObjectId(reqs[i].id)
            /\ paymentCollection' = paymentCollection
            /\ \A j \in Slots \ {i} : reqs'[j] = reqs[j]
        /\ ConfirmInsertOne(i) =>
            /\ resp'.code = 200
            /\ resp'.docs = <<reqs[i].doc>>
            /\ reqs[i].doc \in paymentCollection'
            /\ parcelCollection' = parcelCollection]_vars

\* C11 witness: a confirm is answered 200 with its Payment after the DELETE
\* of its parcel was answered with the success message (so the update ran
\* before the delete and the insert after it); the store holds no such
\* parcel and a Payment that references it.
C11_Witness ==
    /\ resp.code = 200
    /\ resp.req.kind = "confirm"
    /\ resp.req.doc.parcelId \in deleted
    /\ ParcelsOf(resp.req.id) = {}
    /\ resp.docs[1] \in paymentCollection
    /\ resp.docs[1].parcelId = NewObjectId(resp.req.id)
    /\ \A i \in Slots : reqs[i] = Idle

\* The identifiers of the parcels that are or have been in the store: those
\* stored now and those a DELETE removed.
EverParcels == { d._id : d \in parcelCollection } \cup deleted

\* The payments some confirm has built and not yet inserted.
PaymentsPending ==
    { reqs[i].doc : i \in { j \in Slots : reqs[j].kind = "confirm"
                                           /\ reqs[j].pc = "insertPayment" } }

\* C12: under any interleaving of create, delete and confirm-payment, every
\* Payment document, stored or about to be inserted, has status "Succeeded"
\* and the parcelId of a parcel that is in the store or was deleted from it;
\* a confirm goes on to its payment insert only in a step whose update
\* matched a stored parcel, so no Payment is created for an identifier that
\* never was a parcel.
C12_PaymentsReferenceParcels ==
    /\ [](\A pay \in paymentCollection \cup PaymentsPending :
            /\ pay.status = "Succeeded"
            /\ pay.parcelId \in EverParcels)
    /\ [][\A i \in Slots :
            /\ (ConfirmUpdateOne(i) /\ reqs'[i] # Idle) =>
                /\ ParcelsOf(reqs[i].id) # {}
                /\ reqs'[i].doc.parcelId \in { d._id : d \in parcelCollection }
            /\ ConfirmInsertOne(i) =>
                /\ paymentCollection' \ paymentCollection \subseteq {reqs[i].doc}
                /\ reqs[i].doc.parcelId \in EverParcels']_vars

\* C12 witness: a DELETE has just been answered with the success message for
\* a parcel that a stored "Succeeded" payment references, so the payment's
\* parcel existed when the confirm's update matched it and is gone now.
C12_Witness ==
    /\ resp.code = 200
    /\ resp.req.kind = "delete"
    /\ \E pay \in paymentCollection :
        /\ pay.status = "Succeeded"
        /\ pay.parcelId = NewObjectId(resp.req.id)
        /\ pay.parcelId \in deleted
        /\ ParcelsOf(resp.req.id) = {}

====
